---- MODULE Spec2Model ----
(***************************************************************************)
(* Claim/release state machine of package usb: Device -> Config ->         *)
(* Interface, with the per-device and per-config mutexes.                  *)
(*                                                                         *)
(* Every goroutine is a thread t with a program counter pc[t].  One action *)
(* is one step of a method between two points where another goroutine can  *)
(* observe or change shared state: a mutex acquisition together with the   *)
(* critical section up to the next blocking or native call, or a native    *)
(* call.  A goroutine waiting for a mutex stays at its "..._lock" position. *)
(*                                                                         *)
(* The native library is an external, opaque collaborator: each native     *)
(* call either succeeds or fails, chosen nondeterministically, whatever    *)
(* the state of the handle; of its state only the set of claimed           *)
(* interfaces is kept.  d.handle is read without d.mu (Device.Close line   *)
(* 84): the read is its own step, so a Close overlapping another one sees  *)
(* either value.                                                           *)
(*                                                                         *)
(* ret and ncall record what the step just taken returned to its caller    *)
(* and which native call it issued; liveCfg and liveIf record the Config   *)
(* and Interface values the callers hold.                                  *)
(***************************************************************************)
EXTENDS Integers, Sequences, FiniteSets, TLC

\* ---------------------------------------------------------------- bounds
NThreads == 2       \* goroutines of the general specification
MaxConfigs == 2     \* Config values created by Device.Config
MaxIfaces == 2      \* Interface values obtained, or being obtained, at a time
NClaimers == 3      \* goroutines of the concurrent-claim specification

\* ------------------------------------------------------------ vocabulary
Nil == 0

\* inputs tried for cfgNum, intf and alt
CfgNumInputs == 0..2
IntfInputs == -1..1
AltInputs == -1..2

NoArgs == [cfg |-> Nil, intf |-> 0]
NoRet == [t |-> Nil, op |-> "none", res |-> "none", cfg |-> Nil]
NoCall == [t |-> Nil, name |-> "none", intf |-> 0]

VARIABLES
  descriptor,    \* Device.Descriptor.Configs: the ConfigInfo list
  pc,            \* pc[t]: position of goroutine t
  args,          \* args[t]: receiver and interface number of the running call
  ret,           \* the call that returned in the step just taken, or NoRet
  ncall,         \* the native call issued in the step just taken, or NoCall
  handle,        \* Device.handle: "open" or "nil"
  dclaimed,      \* Device.claimed: a Config id or Nil
  dmu,           \* Device.mu: holder or Nil
  cfgs,          \* the Config values: [Info, mu, claimed]
  liveIf,        \* liveIf[c][i]: Interface values obtained and not closed
  liveCfg,       \* Configs returned by Device.Config, not yet closed
  nativeClaimed  \* interfaces claimed at the native layer

vars == << descriptor, pc, args, ret, ncall, handle, dclaimed, dmu, cfgs,
           liveIf, liveCfg, nativeClaimed >>

devVars == << descriptor, handle, dclaimed, dmu >>
ghostVars == << liveIf, liveCfg >>

Procs == DOMAIN pc
ConfigIds == 1..Len(cfgs)

\* ------------------------------------------------------------- helpers
\* lines 63-69 of Device.Config: linear scan by configuration number
RECURSIVE LookupFrom(_, _)
LookupFrom(i, cfgNum) ==
  IF i > Len(descriptor) THEN Nil
  ELSE IF descriptor[i].Config = cfgNum THEN i
  ELSE LookupFrom(i + 1, cfgNum)

\* bug: cfgNum taken as a 0-based index into the list
Lookup_ByIndex(cfgNum) ==
  IF cfgNum >= 0 /\ cfgNum < Len(descriptor) THEN cfgNum + 1 ELSE Nil

Lookup(cfgNum) == LookupFrom(1, cfgNum)

\* Config.Interface lines 86 and 90: the two range checks.  Interfaces[i+1]
\* is the number of AltSettings of the interface at 0-based index i.
IntfInRange(info, intf) == intf >= 0 /\ intf < Len(info.Interfaces)

\* bug: alt > len(ifInfo.AltSettings) as the upper check
AltInRange_OffByOne(info, intf, alt) ==
  alt >= 0 /\ alt <= info.Interfaces[intf + 1]

AltInRange(info, intf, alt) == alt >= 0 /\ alt < info.Interfaces[intf + 1]
ValidIntf(info, intf, alt) ==
  IntfInRange(info, intf) /\ AltInRange(info, intf, alt)

\* a call starts: t is idle
Idle(t) == pc[t] = "idle"

\* t moves to p inside its call: nothing returns in this step
Goto(t, p) ==
  /\ pc' = [pc EXCEPT ![t] = p]
  /\ UNCHANGED args
  /\ ret' = NoRet

\* t enters a method with receiver/interface a and moves to p
Begin(t, a, p) ==
  /\ Idle(t)
  /\ pc' = [pc EXCEPT ![t] = p]
  /\ args' = [args EXCEPT ![t] = a]
  /\ ret' = NoRet

\* the call of method o on config c returns r to t
Return(t, o, r, c) ==
  /\ pc' = [pc EXCEPT ![t] = "idle"]
  /\ args' = [args EXCEPT ![t] = NoArgs]
  /\ ret' = [t |-> t, op |-> o, res |-> r, cfg |-> c]

\* the step issues the native call name (on interface i), or none
Native(t, name, i) == ncall' = [t |-> t, name |-> name, intf |-> i]
NoNative == ncall' = NoCall

InFlight(pcs) == Cardinality({t \in Procs : pc[t] \in pcs})

\* ----------------------------------------------------------------- Init
\* A device just opened: handle valid, nothing claimed, no Config created.
InitFor(T, D) ==
  /\ descriptor = D
  /\ pc = [t \in T |-> "idle"]
  /\ args = [t \in T |-> NoArgs]
  /\ ret = NoRet
  /\ ncall = NoCall
  /\ handle = "open"
  /\ dclaimed = Nil
  /\ dmu = Nil
  /\ cfgs = <<>>
  /\ liveIf = <<>>
  /\ liveCfg = {}
  /\ nativeClaimed = {}

\* one configuration, numbered 2, whose single interface has two settings
Init == InitFor(1..NThreads, << [Config |-> 2, Interfaces |-> <<2>>] >>)

\* --------------------------------------------------------- Device.Reset
ResetCall(t) ==
  /\ Begin(t, NoArgs, "reset_lock")
  /\ NoNative
  /\ UNCHANGED << devVars, cfgs, ghostVars, nativeClaimed >>

\* d.mu.Lock(); d.claimed != nil: return the error (deferred Unlock)
ResetBusy(t) ==
  /\ pc[t] = "reset_lock"
  /\ dmu = Nil
  /\ dclaimed # Nil
  /\ Return(t, "Reset", "busy", Nil)
  /\ NoNative
  /\ UNCHANGED << devVars, cfgs, ghostVars, nativeClaimed >>

\* bug: the d.claimed check is missing
ResetProceed_NoCheck(t) ==
  /\ pc[t] = "reset_lock"
  /\ dmu = Nil
  /\ dmu' = t
  /\ pc' = [pc EXCEPT ![t] = "reset_native"]
  /\ ret' = NoRet
  /\ ncall' = NoCall
  /\ UNCHANGED << args, descriptor, handle, dclaimed, cfgs, liveIf, liveCfg,
                  nativeClaimed >>

\* d.mu.Lock(); d.claimed == nil: go on to the native call, holding d.mu
ResetProceed(t) ==
  /\ pc[t] = "reset_lock"
  /\ dmu = Nil
  /\ dclaimed = Nil
  /\ dmu' = t
  /\ Goto(t, "reset_native")
  /\ NoNative
  /\ UNCHANGED << descriptor, handle, dclaimed, cfgs, ghostVars,
                  nativeClaimed >>

\* libusb.reset(d.handle), then the deferred Unlock
ResetNative(t) ==
  /\ pc[t] = "reset_native"
  /\ Native(t, "reset", 0)
  /\ dmu' = Nil
  /\ \E r \in {"ok", "native"} : Return(t, "Reset", r, Nil)
  /\ UNCHANGED << descriptor, handle, dclaimed, cfgs, ghostVars,
                  nativeClaimed >>

\* -------------------------------------------------------- Device.Config
ConfigRoom == Len(cfgs) + InFlight({"config_lock"}) < MaxConfigs

ConfigNotFound(t, cfgNum) ==
  /\ Idle(t)
  /\ Lookup(cfgNum) = Nil
  /\ Return(t, "Config", "notfound", Nil)
  /\ NoNative
  /\ UNCHANGED << devVars, cfgs, ghostVars, nativeClaimed >>

ConfigSetFail(t, cfgNum) ==
  /\ Idle(t)
  /\ Lookup(cfgNum) # Nil
  /\ Native(t, "setConfig", 0)
  /\ Return(t, "Config", "native", Nil)
  /\ UNCHANGED << devVars, cfgs, ghostVars, nativeClaimed >>

\* cfg.Info = info; libusb.setConfig succeeded: wait for d.mu
\* bug: a second Config is refused while one is claimed
ConfigSetOk_RejectsClaimed(t, cfgNum) ==
  /\ Lookup(cfgNum) # Nil
  /\ ConfigRoom
  /\ Idle(t)
  /\ \/ /\ dclaimed = Nil
        /\ Begin(t, [NoArgs EXCEPT !.cfg = Lookup(cfgNum)], "config_lock")
        /\ Native(t, "setConfig", 0)
     \/ /\ dclaimed # Nil
        /\ Return(t, "Config", "busy", Nil)
        /\ NoNative
  /\ UNCHANGED << devVars, cfgs, ghostVars, nativeClaimed >>

ConfigSetOk(t, cfgNum) ==
  /\ Lookup(cfgNum) # Nil
  /\ ConfigRoom
  /\ Begin(t, [NoArgs EXCEPT !.cfg = Lookup(cfgNum)], "config_lock")
  /\ Native(t, "setConfig", 0)
  /\ UNCHANGED << devVars, cfgs, ghostVars, nativeClaimed >>

\* d.mu.Lock(); d.claimed = cfg; return cfg (deferred Unlock)
ConfigStore(t) ==
  /\ pc[t] = "config_lock"
  /\ dmu = Nil
  /\ cfgs' = Append(cfgs, [Info |-> descriptor[args[t].cfg],
                           mu |-> Nil, claimed |-> {}])
  /\ liveIf' = Append(liveIf,
                 [i \in 0..(Len(descriptor[args[t].cfg].Interfaces) - 1) |-> 0])
  /\ dclaimed' = Len(cfgs) + 1
  /\ liveCfg' = liveCfg \cup {Len(cfgs) + 1}
  /\ Return(t, "Config", "ok", Len(cfgs) + 1)
  /\ NoNative
  /\ UNCHANGED << descriptor, handle, dmu, nativeClaimed >>

\* --------------------------------------------------------- Device.Close
DevCloseAlready(t) ==
  /\ Idle(t)
  /\ handle = "nil"
  /\ Return(t, "DevClose", "closed", Nil)
  /\ NoNative
  /\ UNCHANGED << devVars, cfgs, ghostVars, nativeClaimed >>

DevCloseCall(t) ==
  /\ handle # "nil"
  /\ Begin(t, NoArgs, "close_lock")
  /\ NoNative
  /\ UNCHANGED << devVars, cfgs, ghostVars, nativeClaimed >>

\* bug: with d.mu held, Close closes the claimed Config instead of failing
DevCloseBusy_ClosesConfig(t) ==
  /\ pc[t] = "close_lock"
  /\ dmu = Nil
  /\ dclaimed # Nil
  /\ dmu' = t
  /\ pc' = [pc EXCEPT ![t] = "cclose_lock"]
  /\ args' = [args EXCEPT ![t] = [cfg |-> dclaimed, intf |-> 0]]
  /\ ret' = NoRet
  /\ ncall' = NoCall
  /\ UNCHANGED << descriptor, handle, dclaimed, cfgs, liveIf, liveCfg,
                  nativeClaimed >>

DevCloseBusy(t) ==
  /\ pc[t] = "close_lock"
  /\ dmu = Nil
  /\ dclaimed # Nil
  /\ Return(t, "DevClose", "busy", Nil)
  /\ NoNative
  /\ UNCHANGED << devVars, cfgs, ghostVars, nativeClaimed >>

\* bug: d.handle is not invalidated after libusb.close
DevCloseRelease_KeepHandle(t) ==
  /\ pc[t] = "close_lock"
  /\ dmu = Nil
  /\ dclaimed = Nil
  /\ ncall' = [t |-> t, name |-> "close", intf |-> 0]
  /\ pc' = [pc EXCEPT ![t] = "idle"]
  /\ args' = [args EXCEPT ![t] = NoArgs]
  /\ ret' = [t |-> t, op |-> "DevClose", res |-> "ok", cfg |-> Nil]
  /\ UNCHANGED << descriptor, handle, dclaimed, dmu, cfgs, liveIf, liveCfg,
                  nativeClaimed >>

\* d.mu.Lock(); libusb.close(d.handle); d.handle = nil (deferred Unlock)
DevCloseRelease(t) ==
  /\ pc[t] = "close_lock"
  /\ dmu = Nil
  /\ dclaimed = Nil
  /\ Native(t, "close", 0)
  /\ handle' = "nil"
  /\ Return(t, "DevClose", "ok", Nil)
  /\ UNCHANGED << descriptor, dclaimed, dmu, cfgs, ghostVars, nativeClaimed >>

\* --------------------------------------------------------- Config.Close
CfgCloseCall(t, c) ==
  /\ c \in ConfigIds
  /\ Begin(t, [NoArgs EXCEPT !.cfg = c], "cclose_lock")
  /\ NoNative
  /\ UNCHANGED << devVars, cfgs, ghostVars, nativeClaimed >>

\* c.mu.Lock(); len(c.claimed) > 0: return the error (deferred Unlock)
CfgCloseBusy(t) ==
  /\ pc[t] = "cclose_lock"
  /\ cfgs[args[t].cfg].mu = Nil
  /\ Cardinality(cfgs[args[t].cfg].claimed) > 0
  /\ Return(t, "CfgClose", "busy", args[t].cfg)
  /\ NoNative
  /\ UNCHANGED << devVars, cfgs, ghostVars, nativeClaimed >>

\* bug: len(c.claimed) > 1 as the busy check
CfgCloseProceed_OffByOne(t) ==
  /\ pc[t] = "cclose_lock"
  /\ cfgs[args[t].cfg].mu = Nil
  /\ Cardinality(cfgs[args[t].cfg].claimed) <= 1
  /\ cfgs' = [cfgs EXCEPT ![args[t].cfg].mu = t]
  /\ pc' = [pc EXCEPT ![t] = "cclose_lockdev"]
  /\ ret' = NoRet
  /\ ncall' = NoCall
  /\ UNCHANGED << args, descriptor, handle, dclaimed, dmu, liveIf, liveCfg,
                  nativeClaimed >>

\* c.mu.Lock(); len(c.claimed) == 0: go on to c.dev.mu.Lock(), holding c.mu
CfgCloseProceed(t) ==
  /\ pc[t] = "cclose_lock"
  /\ cfgs[args[t].cfg].mu = Nil
  /\ Cardinality(cfgs[args[t].cfg].claimed) = 0
  /\ cfgs' = [cfgs EXCEPT ![args[t].cfg].mu = t]
  /\ Goto(t, "cclose_lockdev")
  /\ NoNative
  /\ UNCHANGED << devVars, ghostVars, nativeClaimed >>

\* bug: nil is returned without clearing c.dev.claimed
CfgCloseStore_KeepsClaimed(t) ==
  /\ pc[t] = "cclose_lockdev"
  /\ dmu = Nil
  /\ cfgs' = [cfgs EXCEPT ![args[t].cfg].mu = Nil]
  /\ liveCfg' = liveCfg \ {args[t].cfg}
  /\ Return(t, "CfgClose", "ok", args[t].cfg)
  /\ NoNative
  /\ UNCHANGED << descriptor, handle, dclaimed, dmu, liveIf, nativeClaimed >>

\* c.dev.mu.Lock(); c.dev.claimed = nil; both deferred Unlocks
CfgCloseStore(t) ==
  /\ pc[t] = "cclose_lockdev"
  /\ dmu = Nil
  /\ dclaimed' = Nil
  /\ cfgs' = [cfgs EXCEPT ![args[t].cfg].mu = Nil]
  /\ liveCfg' = liveCfg \ {args[t].cfg}
  /\ Return(t, "CfgClose", "ok", args[t].cfg)
  /\ NoNative
  /\ UNCHANGED << descriptor, handle, dmu, liveIf, nativeClaimed >>

\* ----------------------------------------------------- Config.Interface
RECURSIVE SumSeq(_, _)
SumSeq(f, n) == IF n = 0 THEN 0 ELSE f[n] + SumSeq(f, n - 1)

RECURSIVE SumFn(_, _)
SumFn(f, n) == IF n < 0 THEN 0 ELSE f[n] + SumFn(f, n - 1)

LiveIn(c) == SumFn(liveIf[c], Len(cfgs[c].Info.Interfaces) - 1)

\* the bound on Interface values, at least one per goroutine
IfaceCap ==
  IF Cardinality(Procs) > MaxIfaces THEN Cardinality(Procs) ELSE MaxIfaces

IfaceRoom ==
  SumSeq([c \in ConfigIds |-> LiveIn(c)], Len(cfgs))
    + InFlight({"iface_setalt", "iface_rollback", "iface_lock"}) < IfaceCap

IfaceOutOfRange(t, c, intf, alt) ==
  /\ Idle(t)
  /\ c \in ConfigIds
  /\ ~ValidIntf(cfgs[c].Info, intf, alt)
  /\ Return(t, "Interface", "range", c)
  /\ NoNative
  /\ UNCHANGED << devVars, cfgs, ghostVars, nativeClaimed >>

IfaceClaimFail(t, c, intf, alt) ==
  /\ Idle(t)
  /\ c \in ConfigIds
  /\ ValidIntf(cfgs[c].Info, intf, alt)
  /\ Native(t, "claim", intf)
  /\ Return(t, "Interface", "claimfail", c)
  /\ UNCHANGED << devVars, cfgs, ghostVars, nativeClaimed >>

\* bug: an interface number already in c.claimed is refused
IfaceClaimOk_RejectsReclaim(t, c, intf, alt) ==
  /\ c \in ConfigIds
  /\ ValidIntf(cfgs[c].Info, intf, alt)
  /\ IfaceRoom
  /\ Idle(t)
  /\ \/ /\ intf \notin cfgs[c].claimed
        /\ Begin(t, [cfg |-> c, intf |-> intf], "iface_setalt")
        /\ Native(t, "claim", intf)
        /\ nativeClaimed' = nativeClaimed \cup {intf}
     \/ /\ intf \in cfgs[c].claimed
        /\ Return(t, "Interface", "busy", c)
        /\ NoNative
        /\ UNCHANGED nativeClaimed
  /\ UNCHANGED << devVars, cfgs, ghostVars >>

IfaceClaimOk(t, c, intf, alt) ==
  /\ c \in ConfigIds
  /\ ValidIntf(cfgs[c].Info, intf, alt)
  /\ IfaceRoom
  /\ Begin(t, [cfg |-> c, intf |-> intf], "iface_setalt")
  /\ Native(t, "claim", intf)
  /\ nativeClaimed' = nativeClaimed \cup {intf}
  /\ UNCHANGED << devVars, cfgs, ghostVars >>

IfaceSetAltOk(t) ==
  /\ pc[t] = "iface_setalt"
  /\ Native(t, "setAlt", args[t].intf)
  /\ Goto(t, "iface_lock")
  /\ UNCHANGED << devVars, cfgs, ghostVars, nativeClaimed >>

IfaceSetAltFail(t) ==
  /\ pc[t] = "iface_setalt"
  /\ Native(t, "setAlt", args[t].intf)
  /\ Goto(t, "iface_rollback")
  /\ UNCHANGED << devVars, cfgs, ghostVars, nativeClaimed >>

\* bug: the error is returned without libusb.release
IfaceRollback_NoRelease(t) ==
  /\ pc[t] = "iface_rollback"
  /\ ncall' = NoCall
  /\ pc' = [pc EXCEPT ![t] = "idle"]
  /\ args' = [args EXCEPT ![t] = NoArgs]
  /\ ret' = [t |-> t, op |-> "Interface", res |-> "setaltfail",
             cfg |-> args[t].cfg]
  /\ UNCHANGED << descriptor, handle, dclaimed, dmu, cfgs, liveIf, liveCfg,
                  nativeClaimed >>

\* libusb.release(c.dev.handle, intf); return the error
IfaceRollback(t) ==
  /\ pc[t] = "iface_rollback"
  /\ Native(t, "release", args[t].intf)
  /\ nativeClaimed' = nativeClaimed \ {args[t].intf}
  /\ Return(t, "Interface", "setaltfail", args[t].cfg)
  /\ UNCHANGED << devVars, cfgs, ghostVars >>

\* bug: c.claimed is replaced by a map holding intf alone
IfaceStore_Overwrite(t) ==
  /\ pc[t] = "iface_lock"
  /\ cfgs[args[t].cfg].mu = Nil
  /\ cfgs' = [cfgs EXCEPT ![args[t].cfg].claimed = {args[t].intf}]
  /\ liveIf' = [liveIf EXCEPT ![args[t].cfg][args[t].intf] = @ + 1]
  /\ pc' = [pc EXCEPT ![t] = "idle"]
  /\ args' = [args EXCEPT ![t] = NoArgs]
  /\ ret' = [t |-> t, op |-> "Interface", res |-> "ok", cfg |-> args[t].cfg]
  /\ ncall' = NoCall
  /\ UNCHANGED << descriptor, handle, dclaimed, dmu, liveCfg, nativeClaimed >>

\* c.mu.Lock(); c.claimed[intf] = true; return &Interface (deferred Unlock)
IfaceStore(t) ==
  /\ pc[t] = "iface_lock"
  /\ cfgs[args[t].cfg].mu = Nil
  /\ cfgs' = [cfgs EXCEPT ![args[t].cfg].claimed = @ \cup {args[t].intf}]
  /\ liveIf' = [liveIf EXCEPT ![args[t].cfg][args[t].intf] = @ + 1]
  /\ Return(t, "Interface", "ok", args[t].cfg)
  /\ NoNative
  /\ UNCHANGED << devVars, liveCfg, nativeClaimed >>

\* ------------------------------------------------------ Interface.Close
\* Close of an Interface value of config c on interface number intf:
\* removes the entry from claimedInterfaces under the config lock, then
\* performs the native release.
IntfCloseCall(t, c, intf) ==
  /\ c \in ConfigIds
  /\ intf \in DOMAIN liveIf[c]
  /\ liveIf[c][intf] > 0
  /\ Begin(t, [cfg |-> c, intf |-> intf], "iclose_lock")
  /\ NoNative
  /\ liveIf' = [liveIf EXCEPT ![c][intf] = @ - 1]
  /\ UNCHANGED << devVars, cfgs, liveCfg, nativeClaimed >>

IntfCloseRemove(t) ==
  /\ pc[t] = "iclose_lock"
  /\ cfgs[args[t].cfg].mu = Nil
  /\ cfgs' = [cfgs EXCEPT ![args[t].cfg].claimed = @ \ {args[t].intf}]
  /\ Goto(t, "iclose_release")
  /\ NoNative
  /\ UNCHANGED << devVars, ghostVars, nativeClaimed >>

IntfCloseRelease(t) ==
  /\ pc[t] = "iclose_release"
  /\ Native(t, "release", args[t].intf)
  /\ nativeClaimed' = nativeClaimed \ {args[t].intf}
  /\ Return(t, "IntfClose", "ok", args[t].cfg)
  /\ UNCHANGED << devVars, cfgs, ghostVars >>

\* ----------------------------------------------------------------- Next
Next ==
  \E t \in Procs :
    \/ ResetCall(t)
    \/ ResetBusy(t)
    \/ ResetProceed(t)
    \/ ResetNative(t)
    \/ \E n \in CfgNumInputs : ConfigNotFound(t, n)
    \/ \E n \in CfgNumInputs : ConfigSetFail(t, n)
    \/ \E n \in CfgNumInputs : ConfigSetOk(t, n)
    \/ ConfigStore(t)
    \/ DevCloseAlready(t)
    \/ DevCloseCall(t)
    \/ DevCloseBusy(t)
    \/ DevCloseRelease(t)
    \/ \E c \in ConfigIds : CfgCloseCall(t, c)
    \/ CfgCloseBusy(t)
    \/ CfgCloseProceed(t)
    \/ CfgCloseStore(t)
    \/ \E c \in ConfigIds, i \in IntfInputs, a \in AltInputs :
         IfaceOutOfRange(t, c, i, a)
    \/ \E c \in ConfigIds, i \in IntfInputs, a \in AltInputs :
         IfaceClaimFail(t, c, i, a)
    \/ \E c \in ConfigIds, i \in IntfInputs, a \in AltInputs :
         IfaceClaimOk(t, c, i, a)
    \/ IfaceSetAltOk(t)
    \/ IfaceSetAltFail(t)
    \/ IfaceRollback(t)
    \/ IfaceStore(t)
    \/ \E c \in ConfigIds, i \in IntfInputs : IntfCloseCall(t, c, i)
    \/ IntfCloseRemove(t)
    \/ IntfCloseRelease(t)

Spec == Init /\ [][Next]_vars

\* ------------------------------------------- concurrent-claim scenario
\* A Config is claimed on the open device; its configuration has one
\* interface per goroutine.  Goroutine t calls Interface(t-1, 0) once, and
\* every native call succeeds.
ClaimersDescriptor ==
  << [Config |-> 2, Interfaces |-> [i \in 1..NClaimers |-> 1]] >>

InitC4 ==
  /\ descriptor = ClaimersDescriptor
  /\ pc = [t \in 1..NClaimers |-> "idle"]
  /\ args = [t \in 1..NClaimers |-> NoArgs]
  /\ ret = NoRet
  /\ ncall = NoCall
  /\ handle = "open"
  /\ dclaimed = 1
  /\ dmu = Nil
  /\ cfgs = << [Info |-> ClaimersDescriptor[1], mu |-> Nil, claimed |-> {}] >>
  /\ liveIf = << [i \in 0..(NClaimers - 1) |-> 0] >>
  /\ liveCfg = {1}
  /\ nativeClaimed = {}

NextC4 ==
  \E t \in Procs :
    \/ (liveIf[1][t - 1] = 0 /\ IfaceClaimOk(t, 1, t - 1, 0))
    \/ IfaceSetAltOk(t)
    \/ IfaceStore(t)

SpecC4 == InitC4 /\ [][NextC4]_vars

\* ------------------------------------------------- sequential callers
\* The same device used by one goroutine: every call has returned before
\* the next one starts.
InitSeq == InitFor({1}, << [Config |-> 2, Interfaces |-> <<2>>] >>)

SpecSeq == InitSeq /\ [][Next]_vars

\* ------------------------------------------ methods that take no mutex
\* Each is one native call on d.handle (c.dev.handle for Control) whose
\* result is handed back; no mutex is taken and no field is written.
PassThrough(t, o, name, c) ==
  /\ Idle(t)
  /\ Native(t, name, 0)
  /\ UNCHANGED args
  /\ \E r \in {"ok", "native"} :
       /\ pc' = [pc EXCEPT ![t] = "idle"]
       /\ ret' = [t |-> t, op |-> o, res |-> r, cfg |-> c]
  /\ UNCHANGED << devVars, cfgs, ghostVars, nativeClaimed >>

\* bug: the method takes d.mu around the native call
ActiveConfig_Locked(t) ==
  /\ dmu = Nil
  /\ PassThrough(t, "ActiveConfig", "getConfig", Nil)

ActiveConfig(t) == PassThrough(t, "ActiveConfig", "getConfig", Nil)

GetStringDescriptor(t) ==
  PassThrough(t, "GetStringDescriptor", "getStringDesc", Nil)

SetAutoDetach(t) == PassThrough(t, "SetAutoDetach", "setAutoDetach", Nil)

Control(t, c) ==
  /\ c \in ConfigIds
  /\ PassThrough(t, "Control", "control", c)

NextC16 ==
  \/ Next
  \/ \E t \in Procs :
       \/ ActiveConfig(t)
       \/ GetStringDescriptor(t)
       \/ SetAutoDetach(t)
       \/ \E c \in ConfigIds : Control(t, c)

SpecC16 == Init /\ [][NextC16]_vars

\* ------------------------------- native layer refusing a closed handle
\* The general specification, with a native layer in which
\* setConfiguration on an invalidated handle always fails: a Device.Config
\* can then store its Config only if it read d.handle before the Close
\* that invalidated it.
NextC20 ==
  /\ Next
  /\ handle = "nil" /\ ncall'.name = "setConfig" => ret'.res = "native"

SpecC20 == Init /\ [][NextC20]_vars

\* --------------------------------------------------------- properties
\* the first step of Device.Config(cfgNum) and of Config.Interface(intf, alt)
ConfigEntry(t, cfgNum) ==
  \/ ConfigNotFound(t, cfgNum)
  \/ ConfigSetFail(t, cfgNum)
  \/ ConfigSetOk(t, cfgNum)

IfaceEntry(t, c, intf, alt) ==
  \/ IfaceOutOfRange(t, c, intf, alt)
  \/ IfaceClaimFail(t, c, intf, alt)
  \/ IfaceClaimOk(t, c, intf, alt)

Returned(t, o) == ret'.t = t /\ ret'.op = o

\* C1: a Config.Close that returns has succeeded iff the Config's
\* claimedInterfaces was empty when it returned; a busy return leaves the
\* Config's claimedInterfaces and the Device's claimed unchanged; after a
\* successful return the Device's claimed is nil.
C1_CloseIffNoInterfaces ==
  [][\A t \in Procs :
       Returned(t, "CfgClose") =>
         /\ ret'.res \in {"ok", "busy"}
         /\ (ret'.res = "ok") <=> (cfgs[ret'.cfg].claimed = {})
         /\ ret'.res = "busy" =>
              /\ cfgs'[ret'.cfg].claimed = cfgs[ret'.cfg].claimed
              /\ dclaimed' = dclaimed
         /\ ret'.res = "ok" => dclaimed' = Nil]_vars

C1_Witness ==
  /\ ret.op = "CfgClose"
  /\ ret.res = "busy"
  /\ cfgs[ret.cfg].claimed # {}
  /\ dclaimed = ret.cfg

\* C2: a Device.Close that found the handle open succeeds iff claimed is
\* nil; a busy Close leaves the handle as it was and issues no native close;
\* a successful Close invalidates the handle, the handle is never
\* revalidated, and a Close called on an invalidated handle returns
\* already-closed.
C2_DevCloseIffUnclaimed ==
  [][\A t \in Procs :
       /\ Returned(t, "DevClose") /\ ret'.res # "closed" =>
            /\ ret'.res \in {"ok", "busy"}
            /\ (ret'.res = "ok") <=> (dclaimed = Nil)
            /\ ret'.res = "busy" => handle' = handle /\ ncall' = NoCall
            /\ ret'.res = "ok" => handle' = "nil" /\ ncall'.name = "close"
       /\ Returned(t, "DevClose") /\ ret'.res = "closed" => handle = "nil"
       /\ handle = "nil" =>
            /\ handle' = "nil"
            /\ Idle(t) => pc'[t] # "close_lock"]_vars

C2_Witness ==
  /\ ret.op = "DevClose"
  /\ ret.res = "closed"
  /\ handle = "nil"

\* C3: a Config.Interface that fails leaves no native claim behind and
\* does not touch claimedInterfaces: after a failed setAltSetting it issues
\* the native release of intf in the step that returns the error, so intf
\* is not claimed at the native layer; a failed claim and an out-of-range
\* call leave the native claims as they were.
C3_RollbackOnSetAltFailure ==
  [][\A t \in Procs :
       Returned(t, "Interface") /\ ret'.res # "ok" =>
         /\ cfgs' = cfgs
         /\ liveIf' = liveIf
         /\ ret'.res = "setaltfail" =>
              /\ ncall' = [t |-> t, name |-> "release", intf |-> args[t].intf]
              /\ args[t].intf \notin nativeClaimed'
         /\ ret'.res # "setaltfail" => nativeClaimed' = nativeClaimed]_vars

C3_Witness ==
  /\ ret.op = "Interface"
  /\ ret.res = "setaltfail"
  /\ ncall.name = "release"

\* C4: in the concurrent-claim scenario every call returns success, and
\* every interface whose call has returned is in claimedInterfaces; so once
\* all N calls have returned, claimedInterfaces holds all N numbers.
C4_NoLostUpdate ==
  /\ ret.op = "Interface" => ret.res = "ok"
  /\ \A t \in Procs :
       liveIf[1][t - 1] = 1 => (t - 1) \in cfgs[1].claimed
  /\ (\A t \in Procs : Idle(t) /\ liveIf[1][t - 1] = 1) =>
       cfgs[1].claimed = 0..(NClaimers - 1)

C4_Witness ==
  /\ \A t \in Procs : Idle(t) /\ liveIf[1][t - 1] = 1
  /\ Cardinality(cfgs[1].claimed) = NClaimers

\* C5: at most one Config returned by a successful Device.Config is not
\* yet closed.
C5_AtMostOneClaimedConfig == Cardinality(liveCfg) <= 1

\* C6: a Device.Close succeeds only when every Config obtained from the
\* Device has been closed, and a Config.Close succeeds only when every
\* Interface obtained from the Config has been closed.
C6_BottomUpRelease ==
  /\ ret.op = "DevClose" /\ ret.res = "ok" => liveCfg = {}
  /\ ret.op = "CfgClose" /\ ret.res = "ok" => LiveIn(ret.cfg) = 0

\* C7: no set of goroutines waits in a cycle for each other's mutexes; a
\* goroutine that waits for a mutex while holding one is in Config.Close,
\* holds its config mutex and waits for the device mutex; the holder of the
\* device mutex never waits.
WaitsDev(t) == pc[t] \in {"reset_lock", "config_lock", "close_lock",
                          "cclose_lockdev"}
WaitsCfg(t) == pc[t] \in {"cclose_lock", "iface_lock", "iclose_lock"}
HoldsCfg(t, c) == cfgs[c].mu = t
BlockedBy(t, u) ==
  \/ WaitsDev(t) /\ dmu = u
  \/ WaitsCfg(t) /\ HoldsCfg(u, args[t].cfg)

C7_NoDeadlock ==
  /\ \A S \in SUBSET Procs :
       S # {} => \E t \in S : \A u \in S : ~BlockedBy(t, u)
  /\ \A t \in Procs :
       /\ dmu = t => ~WaitsDev(t) /\ ~WaitsCfg(t)
       /\ (\E c \in ConfigIds : HoldsCfg(t, c)) =>
            /\ pc[t] = "cclose_lockdev"
            /\ \A c \in ConfigIds : HoldsCfg(t, c) <=> c = args[t].cfg

C7_Witness ==
  \E t, u \in Procs :
    /\ pc[t] = "cclose_lockdev"
    /\ HoldsCfg(t, args[t].cfg)
    /\ BlockedBy(t, u)
    /\ pc[u] = "reset_native"

\* C8: Device.Reset returns busy iff a Config is claimed, a busy Reset
\* issues no native call, any other Reset issues the native reset, and the
\* native reset is only ever issued while claimed is nil.
C8_ResetOnlyUnclaimed ==
  /\ ncall.name = "reset" => dclaimed = Nil
  /\ \A t \in Procs : pc[t] = "reset_native" => dclaimed = Nil
  /\ ret.op = "Reset" =>
       /\ (ret.res = "busy") <=> (dclaimed # Nil)
       /\ ret.res = "busy" => ncall = NoCall
       /\ ret.res # "busy" => ncall.name = "reset"

C8_Witness ==
  /\ ret.op = "Reset"
  /\ ret.res = "busy"
  /\ dclaimed # Nil

\* C9: Device.Config(cfgNum) with no configuration numbered cfgNum returns
\* not-found, issues no native call and leaves claimed unchanged; otherwise
\* it issues setConfiguration and, if that fails, returns the error and
\* leaves claimed unchanged; when it returns a Config, that Config has the
\* configuration numbered cfgNum and is the Device's claimed.
HasConfigNumber(cfgNum) ==
  \E i \in 1..Len(descriptor) : descriptor[i].Config = cfgNum

C9_ConfigByNumber ==
  [][\A t \in Procs :
       /\ \A n \in CfgNumInputs :
            Idle(t) /\ (Returned(t, "Config") \/ pc'[t] = "config_lock")
              /\ ConfigEntry(t, n) =>
              /\ dclaimed' = dclaimed
              /\ ~HasConfigNumber(n) =>
                   /\ ret' = [t |-> t, op |-> "Config", res |-> "notfound",
                              cfg |-> Nil]
                   /\ ncall' = NoCall
              /\ HasConfigNumber(n) =>
                   /\ ncall'.name = "setConfig"
                   /\ \/ ret' = [t |-> t, op |-> "Config", res |-> "native",
                                 cfg |-> Nil]
                      \/ /\ pc'[t] = "config_lock"
                         /\ descriptor[args'[t].cfg].Config = n
       /\ Returned(t, "Config") /\ ret'.res = "ok" =>
            /\ ret'.cfg \notin ConfigIds
            /\ cfgs'[ret'.cfg].Info = descriptor[args[t].cfg]
            /\ dclaimed' = ret'.cfg]_vars

C9_Witness ==
  /\ ret.op = "Config"
  /\ ret.res = "ok"
  /\ dclaimed = ret.cfg
  /\ cfgs[ret.cfg].Info.Config = 2

\* C10: the first step of Config.Interface(intf, alt) with intf or alt out
\* of range is neither a native claim nor any return but out-of-range, and
\* a call that returns out-of-range has issued no native call and changed
\* neither claimedInterfaces nor the native claims.
OutOfRange(info, intf, alt) ==
  \/ intf < 0
  \/ intf >= Len(info.Interfaces)
  \/ alt < 0
  \/ alt >= info.Interfaces[intf + 1]

C10_OutOfRangeNoNative ==
  [][\A t \in Procs :
       /\ Returned(t, "Interface") /\ ret'.res = "range" =>
            /\ ncall' = NoCall
            /\ cfgs' = cfgs
            /\ liveIf' = liveIf
            /\ nativeClaimed' = nativeClaimed
       /\ /\ Idle(t)
          /\ \/ pc'[t] = "iface_setalt"
             \/ Returned(t, "Interface") /\ ret'.res # "range"
          => \A c \in ConfigIds, i \in IntfInputs, a \in AltInputs :
               OutOfRange(cfgs[c].Info, i, a) => ~IfaceEntry(t, c, i, a)]_vars

C10_Witness ==
  /\ ret.op = "Interface"
  /\ ret.res = "range"
  /\ ncall = NoCall

\* C11: orderly teardown.  A Config.Close that returns while interface 0
\* is in claimedInterfaces returns busy and leaves the Device's claimed as
\* it was; once every Interface value of the Config has been closed and no
\* Interface call is running on it, its claimedInterfaces is empty and a
\* Config.Close that returns succeeds and leaves the Device's claimed nil;
\* a Device.Close that finds the handle open and claimed nil succeeds.
Released(c) ==
  /\ LiveIn(c) = 0
  /\ \A t \in Procs :
       pc[t] \in {"iface_setalt", "iface_rollback", "iface_lock",
                  "iclose_lock", "iclose_release"} => args[t].cfg # c

C11_OrderlyTeardown ==
  [][/\ \A c \in ConfigIds : Released(c) => cfgs[c].claimed = {}
     /\ \A t \in Procs :
          /\ Returned(t, "CfgClose") /\ 0 \in cfgs[ret'.cfg].claimed =>
               /\ ret'.res = "busy"
               /\ dclaimed' = dclaimed
          /\ Returned(t, "CfgClose") /\ Released(ret'.cfg) =>
               /\ ret'.res = "ok"
               /\ dclaimed' = Nil
          /\ Returned(t, "DevClose") /\ ret'.res # "closed"
               /\ dclaimed = Nil =>
               /\ ret'.res = "ok"
               /\ handle' = "nil"]_vars

C11_Witness ==
  /\ ret.op = "CfgClose"
  /\ ret.res = "ok"
  /\ Released(ret.cfg)
  /\ dclaimed = Nil
  /\ nativeClaimed = {}
  /\ handle = "open"
  /\ \E u \in Procs : pc[u] = "close_lock"

\* C12: every interface number in a Config's claimedInterfaces is claimed
\* at the native layer.
C12_ClaimedOnlyIfNative ==
  \A c \in ConfigIds : cfgs[c].claimed \subseteq nativeClaimed

\* C13: a Config.Close that returns on a Config already closed by a
\* successful Config.Close returns an error, and a Device.Close that
\* returns after a successful Device.Close returns an error.
C13_SecondCloseFails ==
  [][\A t \in Procs :
       /\ Returned(t, "CfgClose") /\ ret'.cfg \notin liveCfg =>
            ret'.res # "ok"
       /\ Returned(t, "DevClose") /\ handle = "nil" =>
            ret'.res # "ok"]_vars

C15_ReclaimIdempotent ==
  [][\A t \in Procs :
       /\ Returned(t, "Interface") =>
            ret'.res \in {"ok", "range", "claimfail", "setaltfail"}
       /\ pc[t] = "iface_lock" /\ pc'[t] # "iface_lock" =>
            /\ Returned(t, "Interface")
            /\ ret'.res = "ok"
       /\ Returned(t, "Interface") /\ ret'.res = "ok" =>
            /\ cfgs'[ret'.cfg].claimed =
                 cfgs[ret'.cfg].claimed \cup {args[t].intf}
            /\ args[t].intf \in cfgs[ret'.cfg].claimed =>
                 /\ cfgs'[ret'.cfg].claimed = cfgs[ret'.cfg].claimed
                 /\ liveIf'[ret'.cfg][args[t].intf] =
                      liveIf[ret'.cfg][args[t].intf] + 1]_vars

C15_Witness ==
  /\ ret.op = "Interface"
  /\ ret.res = "ok"
  /\ liveIf[ret.cfg][0] = 2
  /\ cfgs[ret.cfg].claimed = {0}

\* C16: Config.Control, Device.ActiveConfig, Device.GetStringDescriptor and
\* Device.SetAutoDetach can be called and return in one step by any idle
\* goroutine, whoever holds the device mutex or a config mutex, and the
\* step changes neither the mutexes, the Device's claimed, the handle, any
\* Config's claimedInterfaces nor the native claims.
PassOps == {"ActiveConfig", "GetStringDescriptor", "SetAutoDetach", "Control"}

C16_PassThroughFrame ==
  /\ [](\A t \in Procs :
          Idle(t) =>
            /\ ENABLED ActiveConfig(t)
            /\ ENABLED GetStringDescriptor(t)
            /\ ENABLED SetAutoDetach(t)
            /\ \A c \in ConfigIds : ENABLED Control(t, c))
  /\ [][ret'.op \in PassOps =>
          /\ Idle(ret'.t)
          /\ UNCHANGED << handle, dclaimed, dmu, cfgs, nativeClaimed,
                          liveIf, liveCfg >>]_vars

C16_Witness ==
  /\ ret.op = "ActiveConfig"
  /\ dmu \notin {Nil, ret.t}
  /\ \E c \in ConfigIds : cfgs[c].claimed # {}

\* C17: a Config.Close that returns on a Config that is not the Device's
\* claimed leaves the Device's claimed as it was.
C17_CloseClearsOwnClaimOnly ==
  [][\A t \in Procs :
       Returned(t, "CfgClose") /\ dclaimed # ret'.cfg =>
         dclaimed' = dclaimed]_vars

\* C18: the native close is issued, and a Device.Close returns success,
\* only in a step that finds the handle still valid; so across any
\* overlapping Device.Close calls there is at most one of each.
C18_SingleNativeClose ==
  [][/\ ncall'.name = "close" => handle = "open"
     /\ \A t \in Procs :
          Returned(t, "DevClose") /\ ret'.res = "ok" =>
            handle = "open"]_vars

\* C19: whenever the Device's claimed is nil, no interface is claimed at
\* the native layer.
C19_NoNativeClaimWhenUnclaimed == dclaimed = Nil => nativeClaimed = {}

\* C20: a Device whose handle has been invalidated has a nil claimed.
C20_ClosedDeviceUnclaimed == handle = "nil" => dclaimed = Nil

====
